---- MODULE Spec2Model ----
(* Model of BaseGateway (bosch_thermostat_client/gateway/base_gateway.py):  *)
(* schema binding, capability discovery, connection check, read accessors.  *)
EXTENDS Integers, Sequences, FiniteSets, TLC

(* ---------------- bounds ---------------- *)
MaxCalls == 2          \* get_capabilities() calls made in one behaviour
MaxInstances == 1      \* circuit references per category in a schema
MaxChildren == 1       \* child references a device lists below one scanned path

(* ---------------- values ---------------- *)
Absent == "absent"     \* key not in a dict / Python None
Fail == "fail"         \* connector.get raised DeviceException
NoValue == "novalue"   \* response without a VALUE key

FIRMWARE_VERSION == "firmware"
UUID == "uuid"
GATEWAY == "gateway"
MODELS == "models"
HC == "hc"
DHW == "dhw"
SC == "sc"
SENSORS == "sensors"
SENSOR == "sensor"

Sections == {GATEWAY, MODELS, HC, DHW, SC, SENSORS}
Slots == {HC, DHW, SC, SENSORS}
CIRCUIT_TYPES == <<HC, DHW, SC>>
GatewayFields == <<FIRMWARE_VERSION, UUID>>
InfoKeys == {FIRMWARE_VERSION, UUID}

Firmwares == {"fw1", "fw9"}
CircuitCats == {HC, DHW, SC}
Uuids == {"u1", "u2"}
DeviceTypes == {"T1"}
FieldValues(f) == IF f = FIRMWARE_VERSION THEN Firmwares ELSE Uuids
Responses(f) == {Fail, NoValue} \cup FieldValues(f)

(* ---------------- Schema Store ---------------- *)
NoDb == [s \in Sections |-> "nodb"]

get_initial_db ==
  [s \in Sections |-> IF s \in {GATEWAY, MODELS, SENSORS} THEN "base" ELSE Absent]

get_db_of_firmware(type, fw) ==
  IF type = "T1" /\ fw = "fw1"
    THEN [s \in Sections |-> IF s \in {GATEWAY, HC, DHW, SC} THEN "fw1" ELSE Absent]
  ELSE NoDb

Overrides == {{HC}, {DHW, SENSORS}}

get_custom_db(fw, extra_db) ==
  LET known == get_db_of_firmware("T1", fw)
      closest == IF known = NoDb THEN get_db_of_firmware("T1", "fw1") ELSE known
  IN [s \in Sections |-> IF s \in extra_db THEN "custom" ELSE closest[s]]

\* dict.pop(key, None)
DictPop(d, k) == [d EXCEPT ![k] = Absent]

\* a.update(b): every key of b is written into a
DictUpdate(a, b) == [s \in Sections |-> IF b[s] # Absent THEN b[s] ELSE a[s]]

(* ---------------- device identity ---------------- *)
NoDevice == [type |-> "none", hasValue |-> FALSE]
DeviceDicts == [type : DeviceTypes, hasValue : BOOLEAN]
\* outcomes of the get_device_model hook: raises, returns None, returns a dict
DeviceFail == [type |-> "fail", hasValue |-> FALSE]
DeviceOutcomes == {DeviceFail, NoDevice} \cup DeviceDicts

(* ---------------- capability collections ---------------- *)
NoneSlot == [kind |-> "None", gen |-> 0, ready |-> FALSE, items |-> {}]
MissingSlot == [kind |-> "missing", gen |-> 0, ready |-> FALSE, items |-> {}]
Refs == 1..MaxInstances
\* outcome of one category's Circuits.initialize: raises, or the instances that answered
CircuitOutcomes == {[ok |-> FALSE, found |-> {}]} \cup {[ok |-> TRUE, found |-> S] : S \in SUBSET Refs}
NoOutcome == [ok |-> FALSE, found |-> {0}]

VARIABLES data_gateway, data, firmware_version, device, db, initialized,
          pc, idx, supported, gen, seen, same, caps, sameCaps, ncompleted, everInit,
          trace, writes, last

vars == <<data_gateway, data, firmware_version, device, db, initialized,
          pc, idx, supported, gen, seen, same, caps, sameCaps, ncompleted, everInit,
          trace, writes, last>>
gcvars == <<pc, idx, supported, gen, seen, same, caps, sameCaps, ncompleted, trace, writes>>

\* get_info(key), lines 165-169
get_info(dg, key) == IF key \in DOMAIN dg /\ dg[key] # Absent THEN dg[key] ELSE Absent

\* record of the most recent call on the gateway: how it ended, what it fetched and
\* returned, and what held when it was made
Call(name) ==
  [name |-> name, raised |-> "none", fetches |-> 0, uuid |-> Absent, known |-> FALSE,
   gotValue |-> FALSE, arg |-> "-", fetched |-> <<>>,
   branch |-> "-", first |-> FALSE,
   afterFirst |-> (last.name = "check_connection" /\ last.first),
   afterCustom |-> (last.name = "custom_initialize" /\ ~last.preInit
                      /\ firmware_version # Absent),
   preUuid |-> get_info(data_gateway, UUID), preInit |-> initialized, uuidFailed |-> FALSE,
   idFailed |-> FALSE, gotModel |-> FALSE, gotSchema |-> FALSE]

\* BaseGateway.__init__
Init ==
  /\ data_gateway = [k \in InfoKeys |-> Absent]
  /\ data = [s \in Slots |-> IF s = SC THEN MissingSlot ELSE NoneSlot]
  /\ firmware_version = Absent
  /\ device = NoDevice
  /\ db = NoDb
  /\ initialized = FALSE
  /\ pc = "idle"
  /\ idx = 0
  /\ supported = <<>>
  /\ gen = 0
  /\ seen = [c \in CircuitCats |-> NoOutcome]
  /\ same = FALSE
  /\ caps = <<>>
  /\ sameCaps = FALSE
  /\ ncompleted = 0
  /\ everInit = FALSE
  /\ trace = <<>>
  /\ writes = {}
  /\ last = [name |-> "__init__", raised |-> "none", fetches |-> 0, uuid |-> Absent,
             known |-> FALSE, branch |-> "-", first |-> FALSE, afterFirst |-> FALSE,
             afterCustom |-> FALSE, gotValue |-> FALSE, arg |-> "-", fetched |-> <<>>,
             preUuid |-> Absent, preInit |-> FALSE, uuidFailed |-> FALSE,
             idFailed |-> FALSE, gotModel |-> FALSE, gotSchema |-> FALSE]

\* the _update_info hook: one fetch per field of the base schema's gateway section
RECURSIVE update_info(_, _, _, _)
update_info(dg, fields, resp, n) ==
  IF fields = <<>> THEN [dg |-> dg, raised |-> "none", fetches |-> n]
  ELSE LET f == Head(fields)
           r == resp[f]
       IN IF r = Fail
            THEN [dg |-> dg, raised |-> "DeviceException", fetches |-> n + 1]
            ELSE update_info(IF r # NoValue THEN [dg EXCEPT ![f] = r] ELSE dg,
                             Tail(fields), resp, n + 1)

\* initialize(), lines 60-70: the gateway fields after the call and how it ended
initialize(dg, fwv, dev, d, ini, resp, devOut) ==
  LET initial_db == get_initial_db
      u == update_info(dg, GatewayFields, resp, 0)
      fw == get_info(u.dg, FIRMWARE_VERSION)
  IN IF u.raised # "none"
       THEN [dg |-> u.dg, fw |-> fwv, device |-> dev, db |-> d, initialized |-> ini,
             raised |-> u.raised, fetches |-> u.fetches, gotModel |-> FALSE, gotSchema |-> FALSE]
     ELSE IF devOut = DeviceFail
       THEN [dg |-> u.dg, fw |-> fw, device |-> dev, db |-> d, initialized |-> ini,
             raised |-> "DeviceException", fetches |-> u.fetches + 1,
             gotModel |-> FALSE, gotSchema |-> FALSE]
     ELSE IF devOut # NoDevice /\ devOut.hasValue
       THEN LET fwdb == get_db_of_firmware(devOut.type, fw)
            IN IF fwdb # NoDb
                 THEN [dg |-> u.dg, fw |-> fw, device |-> devOut,
                       db |-> DictUpdate(fwdb, DictPop(initial_db, MODELS)),
                       initialized |-> TRUE, raised |-> "none", fetches |-> u.fetches + 1,
                       gotModel |-> TRUE, gotSchema |-> TRUE]
                 ELSE [dg |-> u.dg, fw |-> fw, device |-> devOut, db |-> NoDb,
                       initialized |-> ini, raised |-> "none", fetches |-> u.fetches + 1,
                       gotModel |-> TRUE, gotSchema |-> FALSE]
     ELSE [dg |-> u.dg, fw |-> fw, device |-> devOut, db |-> d, initialized |-> ini,
           raised |-> "none", fetches |-> u.fetches + 1, gotModel |-> FALSE, gotSchema |-> FALSE]

\* some identity read of this initialize() run ended in a DeviceException
IdentityReadFailed(resp, devOut) ==
  \/ resp[FIRMWARE_VERSION] = Fail
  \/ resp[UUID] = Fail
  \/ devOut = DeviceFail

\* the UUID read of this initialize() run did not deliver (raised, or was never reached)
UuidReadFailed(resp) == resp[FIRMWARE_VERSION] = Fail \/ resp[UUID] = Fail

Initialize ==
  /\ pc = "idle"
  /\ \E resp \in [InfoKeys -> Firmwares \cup Uuids \cup {Fail, NoValue}], devOut \in DeviceOutcomes :
       /\ \A f \in InfoKeys : resp[f] \in Responses(f)
       /\ LET r == initialize(data_gateway, firmware_version, device, db, initialized, resp, devOut)
          IN /\ data_gateway' = r.dg
             /\ firmware_version' = r.fw
             /\ device' = r.device
             /\ db' = r.db
             /\ initialized' = r.initialized
             /\ last' = [Call("initialize") EXCEPT
                          !.raised = r.raised, !.fetches = r.fetches,
                          !.uuidFailed = UuidReadFailed(resp),
                          !.idFailed = IdentityReadFailed(resp, devOut),
                          !.gotModel = r.gotModel, !.gotSchema = r.gotSchema]
  /\ everInit' = TRUE
  /\ UNCHANGED <<data, gcvars>>

\* custom_initialize that binds a schema whether or not a firmware version is known
CustomInitializeGuard_Always(fwv) == TRUE

\* custom_initialize that never binds a schema
CustomInitializeGuard_Never(fwv) == FALSE

\* custom_initialize, line 74
CustomInitializeGuard(fwv) == fwv # Absent

\* custom_initialize(extra_db), lines 72-79
CustomInitialize ==
  /\ pc = "idle"
  /\ \E extra_db \in Overrides :
       IF CustomInitializeGuard(firmware_version)
         THEN /\ db' = DictUpdate(get_custom_db(firmware_version, extra_db),
                                  DictPop(get_initial_db, MODELS))
              /\ initialized' = TRUE
         ELSE UNCHANGED <<db, initialized>>
  /\ last' = Call("custom_initialize")
  /\ UNCHANGED <<data_gateway, data, firmware_version, device, gcvars, everInit>>

\* check_connection that runs initialize() again on every call
CheckConnectionBranch_AlwaysInit(ini) == "initialize"

\* check_connection, line 227: which branch runs
CheckConnectionBranch(ini) == IF ~ini THEN "initialize" ELSE "reread"

\* check_connection without its except clause
CheckConnectionExcept_Propagate(raised) == raised

\* check_connection, lines 233-234: what the except clause lets through
CheckConnectionExcept(raised) == IF raised = "DeviceException" THEN "none" ELSE raised

\* UUID re-read that stores the missing value of a response without VALUE
uuid_reread_StoreMissing(dg, d, r) ==
  IF d = NoDb THEN [dg |-> dg, raised |-> "TypeError", fetches |-> 0]
  ELSE IF d[GATEWAY] = Absent THEN [dg |-> dg, raised |-> "KeyError", fetches |-> 0]
  ELSE IF r = Fail THEN [dg |-> dg, raised |-> "DeviceException", fetches |-> 1]
  ELSE [dg |-> [dg EXCEPT ![UUID] = IF r = NoValue THEN Absent ELSE r],
        raised |-> "none", fetches |-> 1]

\* check_connection, lines 230-232: the UUID re-read
uuid_reread(dg, d, r) ==
  IF d = NoDb THEN [dg |-> dg, raised |-> "TypeError", fetches |-> 0]
  ELSE IF d[GATEWAY] = Absent THEN [dg |-> dg, raised |-> "KeyError", fetches |-> 0]
  ELSE IF r = Fail THEN [dg |-> dg, raised |-> "DeviceException", fetches |-> 1]
  ELSE IF r # NoValue THEN [dg |-> [dg EXCEPT ![UUID] = r], raised |-> "none", fetches |-> 1]
  ELSE [dg |-> dg, raised |-> "none", fetches |-> 1]

\* check_connection(), lines 224-236
CheckConnection ==
  /\ pc = "idle"
  /\ \E resp \in [InfoKeys -> Firmwares \cup Uuids \cup {Fail, NoValue}], devOut \in DeviceOutcomes :
       /\ \A f \in InfoKeys : resp[f] \in Responses(f)
       /\ IF CheckConnectionBranch(initialized) = "initialize"
            THEN LET r == initialize(data_gateway, firmware_version, device, db, initialized,
                                     resp, devOut)
                 IN /\ data_gateway' = r.dg
                    /\ firmware_version' = r.fw
                    /\ device' = r.device
                    /\ db' = r.db
                    /\ initialized' = r.initialized
                    /\ everInit' = TRUE
                    /\ last' = [Call("check_connection") EXCEPT
                                 !.raised = CheckConnectionExcept(r.raised),
                                 !.fetches = r.fetches,
                                 !.branch = "initialize", !.first = ~everInit,
                                 !.uuid = IF CheckConnectionExcept(r.raised) = "none"
                                            THEN get_info(r.dg, UUID) ELSE Absent,
                                 !.uuidFailed = UuidReadFailed(resp),
                                 !.gotValue = (~UuidReadFailed(resp) /\ resp[UUID] # NoValue),
                                 !.idFailed = IdentityReadFailed(resp, devOut),
                                 !.gotModel = r.gotModel, !.gotSchema = r.gotSchema]
            ELSE LET r == uuid_reread(data_gateway, db, resp[UUID])
                 IN /\ resp[FIRMWARE_VERSION] = NoValue /\ devOut = NoDevice
                    /\ data_gateway' = r.dg
                    /\ last' = [Call("check_connection") EXCEPT
                                 !.raised = CheckConnectionExcept(r.raised),
                                 !.fetches = r.fetches,
                                 !.uuid = IF CheckConnectionExcept(r.raised) = "none"
                                            THEN get_info(r.dg, UUID) ELSE Absent,
                                 !.branch = "reread", !.first = ~everInit,
                                 !.gotValue = (r.fetches = 1 /\ resp[UUID] \in Uuids),
                                 !.uuidFailed = (r.raised = "DeviceException")]
                    /\ UNCHANGED <<firmware_version, device, db, initialized, everInit>>
  /\ UNCHANGED <<data, gcvars>>

\* initialize_circuits that keeps a collection already in the slot
NewCircuits_Reuse(old, g) ==
  IF old.kind = "Circuits" THEN old
  ELSE [kind |-> "Circuits", gen |-> g, ready |-> FALSE, items |-> {}]

\* initialize_circuits that keeps every category in one slot
CircuitSlot_Shared(circ_type) == HC

\* initialize_circuits, line 187: the slot of gateway state a category's discovery writes
CircuitSlot(circ_type) == circ_type

\* Circuits(...) as constructed at line 187: a collection not yet initialized
NewCircuits(old, g) == [kind |-> "Circuits", gen |-> g, ready |-> FALSE, items |-> {}]

\* Circuits.initialize ran to its end: the instances that answered, built by this pass
CircuitsInitialized(coll, found) ==
  [coll EXCEPT !.ready = TRUE, !.items = {<<i, coll.gen>> : i \in found}]

\* Sensors(...) as constructed at lines 195-197
NewSensors(old, g) == [kind |-> "Sensors", gen |-> g, ready |-> TRUE, items |-> {<<0, g>>}]

\* get_circuits(ctype), line 139
get_circuits(d, ctype) ==
  IF d[ctype].kind = "missing" THEN [raised |-> "none", known |-> FALSE, items |-> {}]
  ELSE IF d[ctype].kind = "None" THEN [raised |-> "AttributeError", known |-> FALSE, items |-> {}]
  ELSE [raised |-> "none", known |-> TRUE, items |-> d[ctype].items]

\* the property accessors heating_circuits, dhw_circuits, solar_circuits, sensors
slot_property(d, slot) ==
  IF d[slot].kind = "missing" THEN [raised |-> "KeyError", known |-> FALSE, items |-> {}]
  ELSE IF d[slot].kind = "None" THEN [raised |-> "AttributeError", known |-> FALSE, items |-> {}]
  ELSE [raised |-> "none", known |-> TRUE, items |-> d[slot].items]

\* get_capabilities without its except clause
GetCapabilitiesExcept_Propagate(raised) == raised

\* get_capabilities, lines 178-180: what the except clause lets through
GetCapabilitiesExcept(raised) == IF raised = "DeviceException" THEN "none" ELSE raised

\* get_capabilities that reports a category whether or not it resolved an instance
AppendIfFound_Always(sup, circuit, circuit_object) == Append(sup, circuit)

\* get_capabilities that puts a found category at the front of its result
AppendIfFound_Prepend(sup, circuit, circuit_object) ==
  IF circuit_object.items # {} THEN <<circuit>> \o sup ELSE sup

\* get_capabilities, lines 176-177
AppendIfFound(sup, circuit, circuit_object) ==
  IF circuit_object.items # {} THEN Append(sup, circuit) ELSE sup

\* initialize_sensors that builds nothing
initialize_sensors_Skip(d, schema, g) == [data |-> d, raised |-> "none"]

\* initialize_sensors(), lines 191-198
initialize_sensors(d, schema, g) ==
  IF schema = NoDb THEN [data |-> d, raised |-> "AttributeError"]
  ELSE IF schema[SENSORS] = Absent THEN [data |-> d, raised |-> "KeyError"]
  ELSE [data |-> [d EXCEPT ![SENSORS] = NewSensors(d[SENSORS], g)], raised |-> "none"]

GcCall(raised) == [Call("get_capabilities") EXCEPT !.raised = raised]

\* get_capabilities(), lines 171-175 and 187-188: from the call to the first suspension
\* (with no schema bound Circuits.initialize(None, ...) cannot read its references and the
\* call ends in an error that is not a DeviceException; line 194 would raise in any case)
GetCapabilities ==
  /\ pc = "idle"
  /\ gen < MaxCalls
  /\ gen' = gen + 1
  /\ supported' = <<>>
  /\ data' = [data EXCEPT ![CircuitSlot(CIRCUIT_TYPES[1])] = NewCircuits(@, gen + 1)]
  /\ trace' = <<<<"start", CIRCUIT_TYPES[1]>>>>
  /\ writes' = {<<CIRCUIT_TYPES[1], CircuitSlot(CIRCUIT_TYPES[1])>>}
  /\ IF db = NoDb
       THEN /\ pc' = "idle"
            /\ idx' = 0
            /\ last' = GcCall("TypeError")
            /\ ncompleted' = 0
            /\ same' = FALSE
       ELSE /\ pc' = "await"
            /\ idx' = 1
            /\ last' = GcCall("pending")
            /\ same' = (ncompleted > 0)
            /\ UNCHANGED ncompleted
  /\ UNCHANGED <<data_gateway, firmware_version, device, db, initialized, seen, caps, sameCaps,
                 everInit>>

\* get_capabilities(), lines 175-183 and 188-189: Circuits.initialize of category
\* CIRCUIT_TYPES[idx] ends; the loop goes on to the next suspension or to the return
CircuitsResume ==
  /\ pc = "await"
  /\ \E o \in CircuitOutcomes :
       LET circuit == CIRCUIT_TYPES[idx]
           raised == GetCapabilitiesExcept(IF o.ok THEN "none" ELSE "DeviceException")
           data1 == IF o.ok
                      THEN [data EXCEPT ![CircuitSlot(circuit)] = CircuitsInitialized(@, o.found)]
                      ELSE data
           trace1 == Append(trace, <<"end", circuit>>)
           sup1 == IF o.ok THEN AppendIfFound(supported, circuit, get_circuits(data1, circuit))
                   ELSE supported
       IN /\ seen' = [seen EXCEPT ![circuit] = o]
          /\ same' = (same /\ seen[circuit] = o)
          /\ IF raised # "none"
               THEN /\ data' = data1
                    /\ supported' = sup1
                    /\ pc' = "idle"
                    /\ idx' = 0
                    /\ last' = GcCall(raised)
                    /\ ncompleted' = 0
                    /\ trace' = trace1
                    /\ UNCHANGED <<caps, sameCaps, writes>>
             ELSE IF idx < Len(CIRCUIT_TYPES)
               THEN /\ data' = [data1 EXCEPT ![CircuitSlot(CIRCUIT_TYPES[idx + 1])] =
                                                   NewCircuits(@, gen)]
                    /\ supported' = sup1
                    /\ idx' = idx + 1
                    /\ trace' = Append(trace1, <<"start", CIRCUIT_TYPES[idx + 1]>>)
                    /\ writes' = writes \cup {<<CIRCUIT_TYPES[idx + 1],
                                                CircuitSlot(CIRCUIT_TYPES[idx + 1])>>}
                    /\ UNCHANGED <<pc, last, ncompleted, caps, sameCaps>>
             ELSE LET s == initialize_sensors(data1, db, gen)
                  IN /\ data' = s.data
                     /\ trace' = Append(trace1, <<"sensors", SENSOR>>)
                     /\ writes' = writes \cup {<<SENSOR, SENSORS>>}
                     /\ pc' = "idle"
                     /\ idx' = 0
                     /\ last' = GcCall(s.raised)
                     /\ IF s.raised = "none"
                          THEN /\ supported' = Append(sup1, SENSOR)
                               /\ sameCaps' = (supported' = caps)
                               /\ caps' = supported'
                               /\ ncompleted' = IF ncompleted < 2 THEN ncompleted + 1 ELSE 2
                          ELSE /\ supported' = sup1
                               /\ ncompleted' = 0
                               /\ UNCHANGED <<caps, sameCaps>>
  /\ UNCHANGED <<data_gateway, firmware_version, device, db, initialized, gen, everInit>>

Accessors == {"get_info", "get_circuits", "heating_circuits", "dhw_circuits",
              "solar_circuits", "sensors"}

\* the read accessors, lines 132-169: what a call ends in
accessor(dg, d, name, arg) ==
  IF name = "get_info" THEN [raised |-> "none", known |-> get_info(dg, arg) # Absent]
  ELSE IF name = "get_circuits"
    THEN [raised |-> get_circuits(d, arg).raised, known |-> get_circuits(d, arg).known]
  ELSE LET slot == IF name = "heating_circuits" THEN HC
                   ELSE IF name = "dhw_circuits" THEN DHW
                   ELSE IF name = "solar_circuits" THEN SC ELSE SENSORS
       IN [raised |-> slot_property(d, slot).raised, known |-> slot_property(d, slot).known]

AccessorArgs(name) ==
  IF name = "get_info" THEN InfoKeys ELSE IF name = "get_circuits" THEN CircuitCats ELSE {Absent}

ReadAccessor ==
  /\ pc = "idle"
  /\ \E name \in Accessors : \E arg \in AccessorArgs(name) :
       last' = [Call(name) EXCEPT !.raised = accessor(data_gateway, data, name, arg).raised,
                                  !.known = accessor(data_gateway, data, name, arg).known]
  /\ UNCHANGED <<data_gateway, data, firmware_version, device, db, initialized, gcvars,
                 everInit>>

HEATING_CIRCUITS == HC
DHW_CIRCUITS == DHW
ROOT_PATHS == <<"/gateway", "/system">>

\* the references (path templates) a schema section defines, in the section's order
SchemaRefs(section, entry) ==
  IF entry = "fw1" THEN (IF section = HEATING_CIRCUITS THEN <<"r1", "r2">> ELSE <<"r1">>)
  ELSE IF entry = "custom" THEN <<"r1">>
  ELSE IF entry = "base" THEN <<"s1">>
  ELSE <<>>

\* what the device does with the fetch of one scanned path: a terminal value, a list of n
\* child references, or a failure that deep_into absorbs ("fail") or lets out ("raise")
ScanOutcomes ==
  {[kind |-> k, n |-> 0] : k \in {"value", "fail", "raise"}}
    \cup {[kind |-> "children", n |-> n] : n \in 1..MaxChildren}

\* one fetched path: a template with its substituted label, or the k-th path below it
Path(tmpl, label, k) == [tmpl |-> tmpl, label |-> label, child |-> k]

\* helper.deep_into(uri, [], get): the fetches of one descent
deep_into(tmpl, label, o) ==
  [paths |-> <<Path(tmpl, label, 0)>> \o [k \in 1..o.n |-> Path(tmpl, label, k)],
   raised |-> IF o.kind = "raise" THEN "DeviceException" ELSE "none"]

\* the scan loops of lines 203-204 and 219-221: one deep_into per path, in order
RECURSIVE scan_all(_, _, _, _, _)
scan_all(tmpls, label, outs, i, acc) ==
  IF i > Len(tmpls) THEN [paths |-> acc, raised |-> "none"]
  ELSE LET d == deep_into(tmpls[i], label, outs[i])
       IN IF d.raised # "none" THEN [paths |-> acc \o d.paths, raised |-> d.raised]
          ELSE scan_all(tmpls, label, outs, i + 1, acc \o d.paths)

\* smallscan that substitutes the other circuit's label
SmallscanFormat_Swapped(_type) ==
  IF _type = HC THEN "dhw1" ELSE IF _type = DHW THEN "hc1" ELSE ""

\* smallscan, lines 209-217: the label put into the path templates
SmallscanFormat(_type) ==
  IF _type = HC THEN "hc1" ELSE IF _type = DHW THEN "dhw1" ELSE ""

\* smallscan, lines 209-217: the schema section whose references are scanned
SmallscanSection(_type) ==
  IF _type = HC THEN HEATING_CIRCUITS ELSE IF _type = DHW THEN DHW_CIRCUITS ELSE SENSORS

\* smallscan(_type), lines 207-222
smallscan(d, _type, outs) ==
  IF d = NoDb \/ d[SmallscanSection(_type)] = Absent
    THEN [paths |-> <<>>, raised |-> "AttributeError"]
    ELSE scan_all(SchemaRefs(SmallscanSection(_type), d[SmallscanSection(_type)]),
                  SmallscanFormat(_type), outs, 1, <<>>)

Smallscan ==
  /\ pc = "idle"
  /\ \E _type \in {HC, DHW, SENSORS}, outs \in [1..2 -> ScanOutcomes] :
       LET r == smallscan(db, _type, outs)
       IN last' = [Call("smallscan") EXCEPT !.raised = r.raised, !.fetches = Len(r.paths),
                                            !.arg = _type, !.fetched = r.paths]
  /\ UNCHANGED <<data_gateway, data, firmware_version, device, db, initialized, gcvars,
                 everInit>>

\* rawscan(), lines 200-205
Rawscan ==
  /\ pc = "idle"
  /\ \E outs \in [1..Len(ROOT_PATHS) -> ScanOutcomes] :
       LET r == scan_all(ROOT_PATHS, "", outs, 1, <<>>)
       IN last' = [Call("rawscan") EXCEPT !.raised = r.raised, !.fetches = Len(r.paths),
                                          !.fetched = r.paths]
  /\ UNCHANGED <<data_gateway, data, firmware_version, device, db, initialized, gcvars,
                 everInit>>

\* Lifecycle calls and discovery share only db, which discovery reads and never writes;
\* the lifecycle calls are explored before the first discovery pass.
BeforeDiscovery == gen = 0

Next ==
  \/ (BeforeDiscovery /\ Initialize)
  \/ (BeforeDiscovery /\ CustomInitialize)
  \/ (BeforeDiscovery /\ CheckConnection)
  \/ (BeforeDiscovery /\ Smallscan)
  \/ (BeforeDiscovery /\ Rawscan)
  \/ GetCapabilities
  \/ CircuitsResume
  \/ ReadAccessor

Spec == Init /\ [][Next]_vars

(* ---------------- properties ---------------- *)
InSeq(x, sq) == \E i \in 1..Len(sq) : sq[i] = x

\* READY: the initialized flag is set and a schema is bound
Ready == initialized /\ db # NoDb

\* a get_capabilities() call has just ended
GcEnded == pc = "idle" /\ last.name = "get_capabilities"
GcReturned == GcEnded /\ last.raised = "none"

\* C1: on a READY gateway get_capabilities() returns without raising, whichever circuit
\* categories fail with a DeviceException; its result holds every category whose discovery
\* succeeded with at least one instance and none whose discovery failed.
C1_PartialOutage ==
  (GcEnded /\ Ready) =>
    /\ last.raised = "none"
    /\ \A c \in CircuitCats :
         /\ (seen[c].ok /\ seen[c].found # {}) => InSeq(c, supported)
         /\ ~seen[c].ok => ~InSeq(c, supported)

C1_Witness ==
  /\ GcReturned /\ Ready
  /\ ~seen[DHW].ok
  /\ seen[HC].ok /\ seen[HC].found # {}
  /\ InSeq(HC, supported) /\ ~InSeq(DHW, supported)

\* C2: check_connection() never ends in a DeviceException, in either branch, and when its
\* UUID read fails it returns the UUID cached before the call and leaves the cache as it was.
C2_CheckConnectionSwallows ==
  last.name = "check_connection" =>
    /\ last.raised # "DeviceException"
    /\ last.uuidFailed =>
         /\ last.raised = "none"
         /\ last.uuid = last.preUuid
         /\ get_info(data_gateway, UUID) = last.preUuid

C2_Witness ==
  /\ last.name = "check_connection"
  /\ last.branch = "initialize"
  /\ last.uuidFailed
  /\ last.preUuid \in Uuids
  /\ last.uuid = last.preUuid

\* C3 as claimed: the first check_connection() runs initialize(); the check_connection()
\* made right after it runs only the UUID re-read, with exactly one fetch.
C3_Claim ==
  /\ (last.name = "check_connection" /\ last.first) => last.branch = "initialize"
  /\ (last.name = "check_connection" /\ last.afterFirst) =>
       /\ last.branch = "reread"
       /\ last.fetches = 1
       /\ last.uuid = get_info(data_gateway, UUID)

\* C3 (amended): the first check_connection() runs initialize(); the check_connection()
\* made right after it runs only the UUID re-read, with exactly one fetch, when the first
\* call left the gateway READY, and runs initialize() again when it did not.
C3_SecondCallRereadsWhenReady ==
  /\ (last.name = "check_connection" /\ last.first) => last.branch = "initialize"
  /\ (last.name = "check_connection" /\ last.afterFirst) =>
       IF last.preInit
         THEN /\ last.branch = "reread"
              /\ last.fetches = 1
              /\ last.raised = "none"
              /\ last.uuid = get_info(data_gateway, UUID)
         ELSE last.branch = "initialize"

C3_Witness ==
  /\ last.name = "check_connection"
  /\ last.afterFirst /\ last.preInit
  /\ last.branch = "reread" /\ last.fetches = 1
  /\ last.uuidFailed /\ last.uuid \in Uuids

\* C4: two get_capabilities() calls in a row that meet the same device responses return the
\* same capability set, and after the second every slot holds a collection built by the
\* second call, with instances of that call only.
C4_DiscoveryIdempotent ==
  (GcReturned /\ ncompleted >= 2 /\ same) =>
    /\ sameCaps
    /\ \A s \in Slots :
         /\ data[s].gen = gen
         /\ \A it \in data[s].items : it[2] = gen

C4_Witness ==
  /\ GcReturned /\ ncompleted >= 2 /\ same
  /\ data[HC].items # {}
  /\ ~seen[DHW].ok

\* C5 as claimed: after initialize() returns, the gateway is READY only if this call
\* obtained a device-model value and resolved a firmware-specific schema.
C5_Claim ==
  (last.name = "initialize" /\ last.raised = "none" /\ initialized) =>
    (last.gotModel /\ last.gotSchema)

\* C6: custom_initialize() made while no firmware version is known changes nothing of the
\* gateway: schema, initialized flag, device identity, gateway info and collections.
C6_CustomInitializeNoOp ==
  [][(last'.name = "custom_initialize" /\ firmware_version = Absent) =>
       UNCHANGED <<db, initialized, device, firmware_version, data_gateway, data>>]_vars

C6_Witness ==
  /\ last.name = "custom_initialize"
  /\ firmware_version = Absent
  /\ get_info(data_gateway, UUID) \in Uuids
  /\ db = NoDb /\ ~initialized

\* C7 as claimed: after initialize() binds a schema, every section the firmware-specific
\* schema defines (models aside) is bound to the firmware-specific entry.
C7_Claim ==
  (last.name \in {"initialize", "check_connection"} /\ last.gotSchema) =>
    \A s \in Sections \ {MODELS} :
      get_db_of_firmware(device.type, firmware_version)[s] # Absent =>
        db[s] = get_db_of_firmware(device.type, firmware_version)[s]

\* C8 as claimed: a read accessor issues no fetch and never raises.
C8_Claim ==
  last.name \in Accessors => (last.raised = "none" /\ last.fetches = 0)

\* C9 as claimed: when an identity read fails during initialize(), initialize() does not
\* raise and the gateway ends not READY.
C9_Claim ==
  (last.name = "initialize" /\ last.idFailed) => (last.raised = "none" /\ ~initialized)

\* C10: every get_capabilities() call that returns has built the sensor collection in this
\* call and reports the sensor category, last in its result.
C10_SensorsAlwaysReported ==
  GcReturned =>
    /\ Len(supported) >= 1
    /\ supported[Len(supported)] = SENSOR
    /\ data[SENSORS].kind = "Sensors"
    /\ data[SENSORS].gen = gen

C10_Witness ==
  /\ GcReturned
  /\ \A c \in CircuitCats : ~seen[c].ok
  /\ supported = <<SENSOR>>

\* C14 as claimed: a circuit collection that has not finished initializing is never
\* visible in a slot of gateway state.
C14_Claim ==
  \A c \in CircuitCats : data[c].kind = "Circuits" => data[c].ready

\* C16: a circuit category whose discovery ends without error and resolves no instance is
\* not in the list get_capabilities() returns.
C16_EmptyCategoryExcluded ==
  GcReturned =>
    \A c \in CircuitCats : (seen[c].ok /\ seen[c].found = {}) => ~InSeq(c, supported)

C16_Witness ==
  /\ GcReturned
  /\ seen[HC].ok /\ seen[HC].found = {}
  /\ seen[DHW].ok /\ seen[DHW].found # {}
  /\ InSeq(DHW, supported) /\ ~InSeq(HC, supported)

\* C17 as claimed: whenever the initialized flag is set a schema is bound.
C17_Claim == initialized => db # NoDb

\* C11: custom_initialize() made on a gateway that is not READY and knows a firmware
\* version binds a schema and sets the initialized flag; the check_connection() that
\* follows takes the UUID re-read branch, with one fetch, and does not run initialize().
C11_CustomInitializeFromFailed ==
  /\ (last.name = "custom_initialize" /\ ~last.preInit /\ firmware_version # Absent) =>
       (initialized /\ db # NoDb /\ \E s \in Sections : db[s] = "custom")
  /\ (last.name = "check_connection" /\ last.afterCustom) =>
       (last.branch = "reread" /\ last.fetches = 1 /\ last.raised = "none")

C11_Witness ==
  /\ last.name = "check_connection" /\ last.afterCustom
  /\ last.branch = "reread"
  /\ firmware_version = "fw9" /\ device.hasValue
  /\ initialized /\ db # NoDb

\* C18: check_connection() on a gateway whose initialized flag is set changes nothing of the
\* gateway but the cached UUID, and changes that only to the value a response carries; a
\* response without a value, or a failed read, leaves the cached UUID as it was.
C18_CheckConnectionFrame ==
  [][(initialized /\ last'.name = "check_connection") =>
       /\ UNCHANGED <<data, firmware_version, device, db, initialized, gcvars>>
       /\ data_gateway'[FIRMWARE_VERSION] = data_gateway[FIRMWARE_VERSION]
       /\ ~last'.gotValue => data_gateway'[UUID] = data_gateway[UUID]
       /\ last'.gotValue => data_gateway'[UUID] = last'.uuid]_vars

C18_Witness ==
  /\ last.name = "check_connection" /\ last.preInit
  /\ last.branch = "reread" /\ last.fetches = 1 /\ last.raised = "none"
  /\ ~last.gotValue /\ ~last.uuidFailed
  /\ last.preUuid \in Uuids
  /\ get_info(data_gateway, UUID) = last.preUuid

\* the order of one get_capabilities() call: each category started and ended in turn,
\* then the sensors
RECURSIVE CategoryEvents(_)
CategoryEvents(cats) ==
  IF cats = <<>> THEN <<>>
  ELSE <<<<"start", Head(cats)>>, <<"end", Head(cats)>>>> \o CategoryEvents(Tail(cats))
FullTrace == CategoryEvents(CIRCUIT_TYPES) \o <<<<"sensors", SENSOR>>>>
ResultOrder == CIRCUIT_TYPES \o <<SENSOR>>
IsPrefix(a, b) == Len(a) <= Len(b) /\ \A i \in 1..Len(a) : a[i] = b[i]
PosIn(x, sq) == CHOOSE i \in 1..Len(sq) : sq[i] = x

C19_SequentialOrder ==
  /\ IsPrefix(trace, FullTrace)
  /\ GcReturned =>
       /\ trace = FullTrace
       /\ supported[Len(supported)] = SENSOR
       /\ \A i \in 1..Len(supported) : InSeq(supported[i], ResultOrder)
       /\ \A i \in 1..Len(supported) : \A j \in 1..Len(supported) :
            i < j => PosIn(supported[i], ResultOrder) < PosIn(supported[j], ResultOrder)

C19_Witness ==
  /\ GcReturned
  /\ trace = FullTrace
  /\ supported = <<HC, DHW, SC, SENSOR>>

\* C12: a bound schema is left as it is by get_capabilities(), check_connection() on a
\* gateway whose flag is set, rawscan(), smallscan() and the read accessors; the schema
\* changes only in initialize() (called directly or by check_connection() on a gateway whose
\* flag is not set) and custom_initialize().
C12_SchemaStable ==
  [][/\ (/\ db # NoDb
         /\ \/ last'.name \in {"get_capabilities", "rawscan", "smallscan"} \cup Accessors
            \/ (last'.name = "check_connection" /\ initialized)
            \/ pc = "await") => db' = db
     /\ db' # db => \/ last'.name \in {"initialize", "custom_initialize"}
                    \/ (last'.name = "check_connection" /\ ~initialized)]_vars

C12_Witness ==
  /\ last.name = "check_connection" /\ last.preInit /\ last.gotValue
  /\ last.uuid # last.preUuid
  /\ db[HC] = "fw1" /\ db[GATEWAY] = "base"

HcRefs(d) == SchemaRefs(HEATING_CIRCUITS, d[HEATING_CIRCUITS])
ExpectedRoots(d) == [i \in 1..Len(HcRefs(d)) |-> Path(HcRefs(d)[i], "hc1", 0)]
IsRoot(p) == p.child = 0
HcScanReturned == last.name = "smallscan" /\ last.arg = HC /\ last.raised = "none"

====
